---- MODULE Spec2Model ----
(***************************************************************************)
(* Model of the Blockchain class of src/utils/cypher.js (lines 29-226).    *)
(*                                                                         *)
(* JavaScript runs one job at a time.  A call of an async method runs      *)
(* synchronously up to its first `await`; the rest of the method is a      *)
(* continuation that is put at the back of the microtask queue.  The model *)
(* keeps that queue (`queue`) and runs its head in RunMicrotask.  Callers  *)
(* (SubmitStar, InitializeChain, ValidateChain, the clock, ...) may act     *)
(* between any two microtasks.                                             *)
(*                                                                         *)
(* Heights are 0-based as in the code; the TLA+ sequence `chain` is        *)
(* 1-based, so this.chain[h] is chain[h + 1].                              *)
(***************************************************************************)
EXTENDS Integers, Sequences, FiniteSets, TLC

\* ---- bounds of the model ------------------------------------------------
\* the number of steps the environment takes in one behaviour: calls of
\* submitStar, initializeChain and validateChain, clock steps, and the
\* alteration of a stored block
MaxCalls == 3

\* ---- input sets ---------------------------------------------------------
Addresses == {"addr1", "addr2"}
Stars == {"Polaris", "Vega"}
TickDeltas == {301}

\* ---- program constants --------------------------------------------------
\* this.height = -1 in the constructor
InitHeight == -1

\* { data: 'Genesis Block' }
GenesisData == "Genesis Block"

\* the 5 * 60 seconds of the freshness window (the check is commented out)
Window == 300

\* JavaScript null (hash / previousBlockHash of an unsealed block, lookup miss)
Null == <<>>

VARIABLES constructed, chain, height, wallet, now, ticks, calls,
          queue, initCalls, vc, vcRuns, report, tampered

vars == <<constructed, chain, height, wallet, now, ticks, calls,
          queue, initCalls, vc, vcRuns, report, tampered>>

\* ---- pure helpers -------------------------------------------------------

\* cypher.toHash: SHA256 of the JSON text of the value.  SHA256 is modelled
\* as an injective function of the serialized fields (collision resistance).
toHash(block) ==
    <<block.hash, block.height, block.body, block.time, block.previousBlockHash>>

\* new BlockClass.Block({data: d}): a block with only its payload set
Block(data) ==
    [hash |-> Null, height |-> 0, body |-> data, time |-> 0,
     previousBlockHash |-> Null]

\* block.getBData(): the decoded view of the payload
getBData(block) == block.body

\* block.validate(): recompute the digest over the fields without the
\* digest and compare with the stored digest
validate(block) == toHash([block EXCEPT !.hash = Null]) = block.hash


\* ---- _addBlock ------------------------------------------------------------

\* mutant: the link is taken only above height 0 (this.height > 0)
pHashOffByOne ==
    IF height > 0 THEN chain[height + 1].hash ELSE Null

\* const pHash = this.height > -1 ? this.chain[this.height].hash : null
pHash ==
    IF height > -1 THEN chain[height + 1].hash ELSE Null

\* mutant: the height stops being incremented above the first block
NextHeightStale == IF height < 1 THEN height + 1 ELSE height

\* ++this.height
NextHeight == height + 1

\* mutant: the hash is computed first, the stamps are set after it
StampedHashFirst(block) ==
    [block EXCEPT !.hash = toHash(block),
                  !.time = now,
                  !.previousBlockHash = pHash,
                  !.height = NextHeight]

\* mutant: the height field is left as the caller's block brought it
StampedKeepsHeight(block) ==
    LET b == [block EXCEPT !.time = now, !.previousBlockHash = pHash]
    IN  [b EXCEPT !.hash = toHash(b)]

\* the block as stamped by _addBlock: time, previousBlockHash, height, then
\* the hash over the block (whose hash field is still null at that moment)
Stamped(block) ==
    LET b == [block EXCEPT !.time = now,
                           !.previousBlockHash = pHash,
                           !.height = NextHeight]
    IN  [b EXCEPT !.hash = toHash(b)]

\* mutant: the block is put in front (unshift) instead of pushed
AddBlockUnshift(block) ==
    /\ chain' = <<Stamped(block)>> \o chain
    /\ height' = NextHeight

\* _addBlock(block): the executor has no await, it runs in one piece
AddBlock(block) ==
    /\ chain' = Append(chain, Stamped(block))
    /\ height' = NextHeight

\* ---- lookups ---------------------------------------------------------------

\* the object literal {...block, "body": block.getBData()}
Decorated(block) == [block EXCEPT !.body = getBData(block)]

\* mutant: the block is taken with this.chain.slice(h)[0], which counts a
\* negative h from the end
getBlockByHeightSlice(h) ==
    IF h < 0 /\ Len(chain) + h + 1 \in 1..Len(chain)
    THEN <<Decorated(chain[Len(chain) + h + 1])>>
    ELSE IF h + 1 \in 1..Len(chain) THEN <<Decorated(chain[h + 1])>> ELSE Null

\* getBlockByHeight(h): <<block>> when this.chain[h] exists, <<>> for null
getBlockByHeight(h) ==
    IF h + 1 \in 1..Len(chain) THEN <<Decorated(chain[h + 1])>> ELSE Null

\* getChainHeight()
getChainHeight == height

\* this.wallet[address] || []
WalletGet(w, address) ==
    IF address \in DOMAIN w THEN w[address] ELSE <<>>

\* getStarsByWalletAddress(address): the recorded heights, each looked up
\* with getBlockByHeight, in the recorded order (Promise.all keeps order)
getStarsByWalletAddress(address) ==
    [k \in 1..Len(WalletGet(wallet, address)) |->
        getBlockByHeight(WalletGet(wallet, address)[k])]

\* mutant: the match is looked up by this.height instead of block.height
getBlockByHashCurrent(hash) ==
    LET hits == {k \in 1..Len(chain) : chain[k].hash = hash}
    IN  IF hits = {} THEN Null ELSE getBlockByHeight(height)

\* the first block of chain.filter(p => p.hash == hash), then its lookup by
\* the height field it carries
getBlockByHash(hash) ==
    LET hits == {k \in 1..Len(chain) : chain[k].hash = hash}
    IN  IF hits = {} THEN Null
        ELSE getBlockByHeight(
                 chain[CHOOSE k \in hits : \A j \in hits : k <= j].height)

\* ---- construction and initializeChain --------------------------------------

\* mutant: the genesis test compares with 0 (this.height === 0)
NeedsGenesisAtZero == height = 0

\* mutant: the genesis test also fires at height 0 (this.height <= 0)
NeedsGenesisUpToZero == height <= 0

\* if (this.height === -1)
NeedsGenesis == height = -1

\* mutant: the genesis block is not appended within the call (the append
\* sits behind an await)
InitializeChainBodyDeferred == UNCHANGED <<chain, height>>

\* the body of initializeChain, up to its only await
InitializeChainBody ==
    IF NeedsGenesis
    THEN AddBlock(Block(GenesisData))
    ELSE UNCHANGED <<chain, height>>

\* clients and the clock have steps left in this behaviour
Budget ==
    Len(calls) + initCalls + vcRuns + ticks
        + (IF tampered = <<>> THEN 0 ELSE 1) < MaxCalls

\* no validateChain call is in flight
VcIdle ==
    [pc |-> "idle", i |-> 0, pHash |-> Null, errorLog |-> <<>>, ok |-> TRUE]

\* no list of findings has been resolved (since the last alteration);
\* walked is the number of blocks the run that resolved it went over
NoReport == [done |-> FALSE, log |-> <<>>, walked |-> 0]

Init ==
    /\ constructed = FALSE
    /\ chain = <<>>
    /\ wallet = <<>>
    /\ height = InitHeight
    /\ now = 0
    /\ ticks = 0
    /\ calls = <<>>
    /\ queue = <<>>
    /\ initCalls = 0
    /\ vc = VcIdle
    /\ vcRuns = 0
    /\ report = NoReport
    /\ tampered = <<>>

\* new Blockchain(): the field assignments are Init, the constructor then
\* calls initializeChain, which runs synchronously through _addBlock
Constructor ==
    /\ ~constructed
    /\ constructed' = TRUE
    /\ InitializeChainBody
    /\ UNCHANGED <<wallet, now, ticks, calls, queue, initCalls,
                   vc, vcRuns, report, tampered>>

\* a later call of initializeChain() by a client
InitializeChain ==
    /\ constructed
    /\ Budget
    /\ initCalls' = initCalls + 1
    /\ InitializeChainBody
    /\ UNCHANGED <<constructed, wallet, now, ticks, calls, queue,
                   vc, vcRuns, report, tampered>>

\* ---- the clock and requestMessageOwnershipVerification ---------------------

\* time passes (new Date().getTime(), in whole seconds)
Tick(d) ==
    /\ Budget
    /\ ticks' = ticks + 1
    /\ now' = now + d
    /\ UNCHANGED <<constructed, chain, height, wallet, calls,
                   queue, initCalls, vc, vcRuns, report, tampered>>

\* requestMessageOwnershipVerification(address) called when the clock read t:
\* `${address}:${seconds}:starRegistry`.  It records nothing.
requestMessageOwnershipVerification(address, t) ==
    [address |-> address, time |-> t, tag |-> "starRegistry"]

\* the messages a client can hold for an address: one requested when the
\* chain was constructed, one requested just now
Messages(address) ==
    {requestMessageOwnershipVerification(address, t) : t \in {0, now}}

\* ---- submitStar ------------------------------------------------------------

\* reject(e) / resolve(v) of a promise: only the first settlement counts
Reject(call, e) ==
    IF call.state = "pending"
    THEN [call EXCEPT !.state = "rejected", !.error = e]
    ELSE call

Resolve(call, v) ==
    IF call.state = "pending"
    THEN [call EXCEPT !.state = "resolved", !.value = v]
    ELSE call

\* mutant: the test is inverted (if (valid) reject ...)
CheckSignatureInverted(call) ==
    IF call.valid THEN Reject(call, "Invalid signature") ELSE call

\* if (!valid) reject('Invalid signature')      -- there is no return
CheckSignature(call) ==
    IF ~call.valid THEN Reject(call, "Invalid signature") ELSE call

\* parseInt(message.split(':')[1])
MessageTime(message) == message.time

\* const milSeconds = currentTime - time   (computed, never used)
Elapsed(call) == now - call.msgTime

\* mutant: the list of the address is replaced instead of extended
WalletAddOverwrite(w, address, h) ==
    [a \in DOMAIN w \cup {address} |-> IF a = address THEN <<h>> ELSE w[a]]

\* {...this.wallet, [address]: [...(this.wallet[address] || []), h]}
WalletAdd(w, address, h) ==
    [a \in DOMAIN w \cup {address} |->
        IF a = address THEN Append(WalletGet(w, address), h) ELSE w[a]]

\* submitStar(address, message, signature, star), up to the first await:
\* bitcoinMessage.verify is evaluated, its outcome is `valid`
SubmitStar(address, message, valid, star) ==
    /\ constructed
    /\ Budget
    /\ calls' = Append(calls,
          [address |-> address, star |-> star, valid |-> valid,
           msgTime |-> MessageTime(message), blk |-> 0, recorded |-> -1,
           state |-> "pending", error |-> "", value |-> Null])
    /\ queue' = Append(queue,
          [kind |-> "submitStar", id |-> Len(calls) + 1, pc |-> "verified"])
    /\ UNCHANGED <<constructed, chain, height, wallet, now, ticks,
                   initCalls, vc, vcRuns, report, tampered>>

\* from `if (!valid)` to `await this._addBlock(...)`; blk remembers which
\* stored object the local `block` refers to
SubmitStarVerified(id) ==
    /\ AddBlock(Block(calls[id].star))
    /\ calls' = [calls EXCEPT ![id] =
                    [CheckSignature(calls[id]) EXCEPT !.blk = Len(chain) + 1]]
    /\ queue' = Append(Tail(queue),
          [kind |-> "submitStar", id |-> id, pc |-> "added"])
    /\ UNCHANGED <<constructed, wallet, now, ticks, initCalls,
                   vc, vcRuns, report, tampered>>

\* mutant: the wallet gets this.height instead of block.height
BlockHeightCurrent(id) == height

\* block.height, read from the stored object the local `block` refers to
BlockHeight(id) == chain[calls[id].blk].height

\* from the wallet update to resolve(this.getBlockByHeight(this.height))
SubmitStarAdded(id) ==
    LET h == BlockHeight(id)
    IN  /\ wallet' = WalletAdd(wallet, calls[id].address, h)
        /\ calls' = [calls EXCEPT ![id] =
              Resolve([calls[id] EXCEPT !.recorded = h],
                      getBlockByHeight(height))]
        /\ queue' = Tail(queue)
        /\ UNCHANGED <<constructed, chain, height, now, ticks,
                       initCalls, vc, vcRuns, report, tampered>>

\* ---- validateChain ---------------------------------------------------------

\* errorLog.push(`block ${hash} invalid previous hash`)
LinkError(block) == [kind |-> "invalid previous hash", hash |-> block.hash]

\* errorLog.push(`block ${hash} seems to have been violeted`)
ContentError(block) == [kind |-> "violeted", hash |-> block.hash]

\* if (pHash != this.chain[i].previousBlockHash) errorLog.push(...)
CheckLink(ph, block, log) ==
    IF ph # block.previousBlockHash THEN Append(log, LinkError(block)) ELSE log

\* if (!(await this.chain[i].validate())) errorLog.push(...)
CheckContent(ok, block, log) ==
    IF ~ok THEN Append(log, ContentError(block)) ELSE log

\* mutant: the expected previous hash is recomputed instead of read
ExpectedPreviousRecomputed(block) == toHash([block EXCEPT !.hash = Null])

\* pHash = this.chain[i].hash
ExpectedPrevious(block) == block.hash

\* mutant: a block that fails validate() gets its hash recomputed in place
VcEnterRepairing(i, ph, log, q) ==
    IF i <= height
    THEN /\ vc' = [pc |-> "awaiting", i |-> i, pHash |-> ph,
                   errorLog |-> CheckLink(ph, chain[i + 1], log),
                   ok |-> validate(chain[i + 1])]
         /\ queue' = Append(q,
               [kind |-> "validateChain", id |-> 0, pc |-> "validated"])
         /\ chain' = [chain EXCEPT ![i + 1] =
               [chain[i + 1] EXCEPT !.hash =
                   toHash([chain[i + 1] EXCEPT !.hash = Null])]]
         /\ UNCHANGED <<report, height, wallet>>
    ELSE /\ vc' = VcIdle
         /\ report' = [done |-> TRUE, log |-> log, walked |-> i]
         /\ queue' = q
         /\ UNCHANGED <<chain, height, wallet>>

\* the loop test, then the loop body up to `await ...validate()`, or
\* resolve(errorLog) when the loop is over; q is the queue without the
\* continuation that is running.  The loop only reads this.chain and
\* this.height.
VcEnter(i, ph, log, q) ==
    IF i <= height
    THEN /\ vc' = [pc |-> "awaiting", i |-> i, pHash |-> ph,
                   errorLog |-> CheckLink(ph, chain[i + 1], log),
                   ok |-> validate(chain[i + 1])]
         /\ queue' = Append(q,
               [kind |-> "validateChain", id |-> 0, pc |-> "validated"])
         /\ UNCHANGED <<report, chain, height, wallet>>
    ELSE /\ vc' = VcIdle
         /\ report' = [done |-> TRUE, log |-> log, walked |-> i]
         /\ queue' = q
         /\ UNCHANGED <<chain, height, wallet>>

\* validateChain(), up to the first await
ValidateChain ==
    /\ constructed
    /\ vc.pc = "idle"
    /\ Budget
    /\ vcRuns' = vcRuns + 1
    /\ VcEnter(0, Null, <<>>, queue)
    /\ UNCHANGED <<constructed, now, ticks, calls, initCalls, tampered>>

\* after the await: the content finding, pHash, i++, and the next round
ValidateChainValidated ==
    /\ VcEnter(vc.i + 1,
               ExpectedPrevious(chain[vc.i + 1]),
               CheckContent(vc.ok, chain[vc.i + 1], vc.errorLog),
               Tail(queue))
    /\ UNCHANGED <<constructed, now, ticks, calls, initCalls, vcRuns,
                   tampered>>

\* ---- the microtask queue ---------------------------------------------------

\* the job at the head of the queue runs to its next await or to its end
RunMicrotask ==
    /\ queue # <<>>
    /\ LET job == Head(queue)
       IN  \/ /\ job.kind = "submitStar" /\ job.pc = "verified"
              /\ SubmitStarVerified(job.id)
           \/ /\ job.kind = "submitStar" /\ job.pc = "added"
              /\ SubmitStarAdded(job.id)
           \/ /\ job.kind = "validateChain"
              /\ ValidateChainValidated

\* ---- in-place alteration of a stored block ---------------------------------

\* the values a field of the block at position k can be overwritten with
FieldValues(field) ==
    CASE field = "body" -> Stars \cup {GenesisData}
      [] field = "height" -> {0, 1}
      [] field = "time" -> {0, 301}
      [] field = "previousBlockHash" ->
             {Null} \cup {chain[j].hash : j \in 1..Len(chain)}

Altered(block, field, v) ==
    CASE field = "body" -> [block EXCEPT !.body = v]
      [] field = "height" -> [block EXCEPT !.height = v]
      [] field = "time" -> [block EXCEPT !.time = v]
      [] field = "previousBlockHash" -> [block EXCEPT !.previousBlockHash = v]

\* someone with a reference to the chain array overwrites one field (not the
\* hash) of one stored block, once, while no call is under way
Tamper(k, field, v) ==
    /\ constructed
    /\ Budget
    /\ tampered = <<>>
    /\ vc.pc = "idle"
    /\ queue = <<>>
    /\ Altered(chain[k], field, v) # chain[k]
    /\ chain' = [chain EXCEPT ![k] = Altered(chain[k], field, v)]
    /\ tampered' = <<k, field>>
    /\ report' = NoReport
    /\ UNCHANGED <<constructed, height, wallet, now, ticks, calls,
                   queue, initCalls, vc, vcRuns>>

\* ---- specifications --------------------------------------------------------

Next ==
    \/ Constructor
    \/ InitializeChain
    \/ \E d \in TickDeltas : Tick(d)
    \/ \E a \in Addresses, valid \in BOOLEAN, star \in Stars :
          \E m \in Messages(a) : SubmitStar(a, m, valid, star)
    \/ ValidateChain
    \/ RunMicrotask

Spec == Init /\ [][Next]_vars

Fields == {"body", "height", "time", "previousBlockHash"}

NextTamper ==
    \/ Next
    \/ \E k \in 1..Len(chain), f \in Fields :
          \E v \in FieldValues(f) : Tamper(k, f, v)

SpecTamper == Init /\ [][NextTamper]_vars

\* ---- properties -------------------------------------------------------------

CallIds == 1..Len(calls)

\* the call has run both of its continuations
Finished(id) == calls[id].recorded # -1

\* the heights recorded under an address, as a set
Recorded(address) ==
    {WalletGet(wallet, address)[k] : k \in 1..Len(WalletGet(wallet, address))}

\* the job at the head of the queue belongs to the submitStar call id
RunsNext(id) ==
    /\ queue # <<>>
    /\ Head(queue).kind = "submitStar"
    /\ Head(queue).id = id

\* C1: a submitStar call whose signature fails verification changes neither
\* the height, nor the chain, nor the wallet, in any of its steps.
C1_InvalidSubmitMutatesNothing ==
    [][(\E id \in CallIds : ~calls[id].valid /\ RunsNext(id) /\ RunMicrotask)
          => UNCHANGED <<height, chain, wallet>>]_vars

\* C2: once N submitStar calls, all with a valid signature, have all
\* resolved and nothing else was submitted, the height is N; and every block
\* above the genesis carries the stored hash of the block below it.
C2_HeightAndLinkage ==
    constructed =>
        /\ (\A id \in CallIds : calls[id].valid /\ calls[id].state = "resolved")
              => getChainHeight = Len(calls)
        /\ \A h \in 1..height :
              chain[h + 1].previousBlockHash = chain[h].hash

C2_Witness ==
    /\ Len(calls) = 2
    /\ \A id \in CallIds : calls[id].valid /\ calls[id].state = "resolved"
    /\ height = 2

\* C3: whenever a job of another operation is the next to run, a block that
\* a submitStar call has pushed is already recorded under its address, and
\* a recorded height is the height of a pushed block.
C3_NoPartialSubmit ==
    \A id \in CallIds :
        (queue # <<>> /\ ~RunsNext(id)) =>
            (calls[id].blk # 0 <=>
                (/\ calls[id].recorded # -1
                 /\ calls[id].recorded \in Recorded(calls[id].address)))

\* C4: a resolved submitStar call resolved with a block, that block holds the
\* star of this call and has the height this call recorded in the wallet.
C4_ResolvesWithOwnBlock ==
    \A id \in CallIds :
        calls[id].state = "resolved" =>
            /\ calls[id].value # Null
            /\ calls[id].value[1].body = calls[id].star
            /\ calls[id].value[1].height = calls[id].recorded

\* ---- findings of a validateChain run after an alteration ---------------------

\* the findings of one kind in the resolved list that name the block `hash`
Findings(kind, hash) ==
    {k \in 1..Len(report.log) :
        report.log[k].kind = kind /\ report.log[k].hash = hash}

FindingsOfKind(kind) ==
    {k \in 1..Len(report.log) : report.log[k].kind = kind}

\* a validateChain run that started after the alteration has resolved
ReportedAfterTamper == tampered # <<>> /\ report.done

\* C5 as stated: after one field (not the hash) of one stored block was
\* altered, validateChain reports exactly one content finding, for that
\* block, and exactly one linkage finding, for the following block when the
\* run went over one.
C5_OneContentOneNextLink ==
    ReportedAfterTamper =>
        LET k == tampered[1]
        IN  /\ Cardinality(FindingsOfKind("violeted")) = 1
            /\ Cardinality(Findings("violeted", chain[k].hash)) = 1
            /\ k < report.walked =>
                  /\ Cardinality(FindingsOfKind("invalid previous hash")) = 1
                  /\ Cardinality(Findings("invalid previous hash",
                                          chain[k + 1].hash)) = 1

\* C5 as amended: validateChain reports exactly one content finding, for the
\* altered block; it reports a linkage finding only when the altered field is
\* previousBlockHash, then exactly one, for the altered block itself; no
\* finding names the following block or any other block.
C5_TamperFindings ==
    ReportedAfterTamper =>
        LET k == tampered[1]
            links == IF tampered[2] = "previousBlockHash" THEN 1 ELSE 0
        IN  /\ Cardinality(FindingsOfKind("violeted")) = 1
            /\ Cardinality(Findings("violeted", chain[k].hash)) = 1
            /\ Cardinality(FindingsOfKind("invalid previous hash")) = links
            /\ Cardinality(Findings("invalid previous hash",
                                    chain[k].hash)) = links
            /\ Len(report.log) = 1 + links

C5_Witness ==
    /\ ReportedAfterTamper
    /\ tampered[1] < report.walked
    /\ tampered[2] # "previousBlockHash"

\* C6: no block is appended for a submitStar call whose message was more
\* than 300 seconds old when the call reached the append.
C6_FreshnessWindow ==
    \A id \in CallIds :
        calls[id].blk # 0 =>
            chain[calls[id].blk].time - calls[id].msgTime <= Window

\* C7: the stars of an address contain the block of each resolved
\* submitStar call for that address, with the star of that call; they come in
\* the order of the calls; an address nobody submitted for has no stars.
C7_StarsByWallet ==
    /\ \A id \in CallIds :
          calls[id].state = "resolved" =>
              \E k \in DOMAIN getStarsByWalletAddress(calls[id].address) :
                  LET found == getStarsByWalletAddress(calls[id].address)[k]
                  IN  /\ found # Null
                      /\ found[1].body = calls[id].star
                      /\ found[1].height = calls[id].blk - 1
                      /\ found[1].hash = chain[calls[id].blk].hash
    /\ \A i, j \in CallIds :
          (i < j /\ calls[i].address = calls[j].address
                 /\ Finished(i) /\ Finished(j)) =>
              \E k, l \in DOMAIN getStarsByWalletAddress(calls[i].address) :
                  /\ k < l
                  /\ WalletGet(wallet, calls[i].address)[k] = calls[i].recorded
                  /\ WalletGet(wallet, calls[i].address)[l] = calls[j].recorded
    /\ \A a \in Addresses :
          (\A id \in CallIds : calls[id].address # a) =>
              getStarsByWalletAddress(a) = <<>>

C7_Witness ==
    \E i, j \in CallIds :
        /\ i < j
        /\ calls[i].address = calls[j].address
        /\ calls[i].state = "resolved" /\ calls[j].state = "resolved"
        /\ Finished(i) /\ Finished(j)
        /\ \E a \in Addresses : \A id \in CallIds : calls[id].address # a

\* C8: once the constructor has run initializeChain on the empty chain, the
\* block at height 0 is the genesis block with previousBlockHash null, and
\* the height is 0 as long as nothing was submitted.
C8_Genesis ==
    constructed =>
        /\ Len(chain) >= 1
        /\ chain[1].body = GenesisData
        /\ chain[1].height = 0
        /\ chain[1].previousBlockHash = Null
        /\ Len(calls) = 0 => getChainHeight = 0

C8_Witness == constructed /\ Len(calls) = 0 /\ height = 0 /\ Len(chain) = 1

\* C9: a call of initializeChain on a constructed chain leaves the height
\* and the chain (so every block and every hash) as they are.
C9_InitializeIdempotent ==
    [][(constructed /\ initCalls' = initCalls + 1)
          => (height' = height /\ chain' = chain)]_vars

C9_Witness == initCalls >= 1 /\ height >= 1 /\ Len(chain) = height + 1

AbsentHashes ==
    ({Null} \cup {Stamped(Block(star)).hash : star \in Stars})
        \ {chain[k].hash : k \in 1..Len(chain)}

\* C11: getBlockByHeight resolves with null for every height below 0 and
\* every height above the current height, and getBlockByHash resolves with
\* null for every digest that no stored block has.
C11_LookupMisses ==
    constructed =>
        /\ \A h \in -3..(height + 2) :
              (h < 0 \/ h > getChainHeight) => getBlockByHeight(h) = Null
        /\ \A d \in AbsentHashes : getBlockByHash(d) = Null

C11_Witness ==
    /\ height >= 2
    /\ getBlockByHeight(height) # Null
    /\ getBlockByHeight(height + 1) = Null
    /\ getBlockByHeight(-1) = Null
    /\ \E d \in AbsentHashes : d # Null /\ getBlockByHash(d) = Null

\* a step of validateChain: its call, or one of its continuations
ValidateStep == vcRuns' # vcRuns \/ vc' # vc

\* C12: no step of validateChain changes the chain, the height or the
\* wallet, also when it finds something to report.
C12_ValidateChainReadsOnly ==
    [][ValidateStep => UNCHANGED <<chain, height, wallet>>]_vars

C12_Witness ==
    /\ ReportedAfterTamper
    /\ report.log # <<>>
    /\ report.walked >= 2

\* C13: whatever the interleaving of submitStar calls, no two stored blocks
\* have the same height, and every block above the genesis carries the
\* stored hash of the block right below it.
C13_NoInterleavedAppend ==
    /\ \A i, j \in 1..Len(chain) :
          i # j => chain[i].height # chain[j].height
    /\ \A k \in 2..Len(chain) :
          chain[k].previousBlockHash = chain[k - 1].hash

\* two submitStar calls have both pushed their block and both still wait
\* for their last continuation
C13_Witness ==
    \E i, j \in CallIds :
        /\ i # j
        /\ calls[i].blk # 0 /\ ~Finished(i)
        /\ calls[j].blk # 0 /\ ~Finished(j)

\* C14: the height is the number of stored blocks minus 1, and the block at
\* index i carries height i.
C14_HeightIsLastIndex ==
    /\ height = Len(chain) - 1
    /\ \A k \in 1..Len(chain) : chain[k].height = k - 1

C14_Witness == height >= 2 /\ Len(chain) = height + 1 /\ chain[3].height = 2

\* C15: every step keeps the stored blocks as a prefix of the chain, field
\* by field, and never lowers the height.
C15_AppendOnly ==
    [][/\ Len(chain') >= Len(chain)
       /\ SubSeq(chain', 1, Len(chain)) = chain
       /\ height' >= height]_vars

C15_Witness ==
    /\ Len(chain) >= 3
    /\ \E id \in CallIds : Finished(id)
    /\ report.done

\* C16: on a chain that only initializeChain and submitStar have written,
\* validate() is true of every stored block and every list validateChain
\* resolves with is empty.
C16_IntactChainValidates ==
    /\ \A k \in 1..Len(chain) : validate(chain[k])
    /\ report.done => report.log = <<>>

C16_Witness ==
    /\ report.done
    /\ report.walked >= 3
    /\ report.log = <<>>

\* C17: getBlockByHash resolves, for the digest of a stored block, with the
\* decorated first block that has this digest, which is the block
\* getBlockByHeight resolves with for its height; for a digest no block has
\* it resolves with null.
C17_HashLookup ==
    /\ \A k \in 1..Len(chain) :
          LET first == CHOOSE j \in 1..Len(chain) :
                          /\ chain[j].hash = chain[k].hash
                          /\ \A i \in 1..(j - 1) : chain[i].hash # chain[k].hash
          IN  /\ getBlockByHash(chain[k].hash) = <<Decorated(chain[first])>>
              /\ getBlockByHash(chain[k].hash) = getBlockByHeight(k - 1)
    /\ \A d \in AbsentHashes : getBlockByHash(d) = Null

C17_Witness ==
    /\ Len(chain) >= 3
    /\ getBlockByHash(chain[2].hash) # Null
    /\ getBlockByHash(chain[2].hash)[1].height = 1
    /\ \E d \in AbsentHashes : getBlockByHash(d) = Null

\* C18: every height in the wallet is between 1 and the current height, is
\* recorded at exactly one place of exactly one address, and is the height
\* of the block a submitStar call for that address has pushed.
C18_WalletHeights ==
    \A a \in Addresses :
        \A k \in 1..Len(WalletGet(wallet, a)) :
            LET h == WalletGet(wallet, a)[k]
            IN  /\ h \in 1..height
                /\ \A b \in Addresses :
                      \A l \in 1..Len(WalletGet(wallet, b)) :
                          WalletGet(wallet, b)[l] = h => (b = a /\ l = k)
                /\ \E id \in CallIds :
                      /\ calls[id].address = a
                      /\ calls[id].blk = h + 1
                      /\ chain[calls[id].blk].height = h

\* both addresses have heights recorded, by calls that were in flight together
C18_Witness ==
    /\ \A a \in Addresses : WalletGet(wallet, a) # <<>>
    /\ \E a \in Addresses : Len(WalletGet(wallet, a)) >= 2

\* C19: nothing is called before the constructor has returned, and from
\* then on the height is at least 0 and the genesis block is stored at
\* index 0; no submitStar call pushed onto an empty chain and no
\* validateChain run walked over an empty chain.
C19_InitializedBeforeUse ==
    /\ ~constructed =>
          (calls = <<>> /\ queue = <<>> /\ vcRuns = 0 /\ initCalls = 0)
    /\ constructed =>
          /\ height >= 0
          /\ Len(chain) >= 1
          /\ chain[1].height = 0
          /\ chain[1].body = GenesisData
          /\ \A id \in CallIds : calls[id].blk # 0 => calls[id].blk >= 2
          /\ report.done => report.walked >= 1

C19_Witness ==
    /\ constructed
    /\ \E id \in CallIds : calls[id].blk >= 2
    /\ report.done
    /\ chain[1].body = GenesisData

====
